---- MODULE Spec2Model ----
(***************************************************************************)
(* Workspace / Project / ProjectSnapshot of evidently.ui.workspace and the *)
(* test-suite counter panel of evidently.ui.dashboard.test_suites.         *)
(*                                                                         *)
(* The workspace root is a directory tree: one directory per project,      *)
(* holding metadata.json and a snapshots directory with one file per       *)
(* snapshot.  A directory name is modelled by the id whose str() it is.    *)
(* Project is a pydantic (v1) model: id, name, description and dashboard   *)
(* are fields kept in __dict__; _snapshots and _workspace are private      *)
(* attributes kept in slots, each instance getting its own copy of the     *)
(* default {}.                                                             *)
(***************************************************************************)
EXTENDS Integers, Sequences, FiniteSets, TLC

VARIABLES
    dirs,       \* project directories that exist under the workspace root
    metadata,   \* dirs that hold metadata.json -> its parsed content
    files,      \* directory name -> (file name -> content) of its snapshots directory
    projects,   \* Workspace._projects: key -> Project
    fresh,      \* number of uuid.uuid4() calls made so far
    nops,       \* number of operations made since the Workspace was constructed
    last,       \* the last operation, its arguments and how it ended
    detached,   \* a Project the caller built and never bound to a Workspace
    snap,       \* a stand-alone ProjectSnapshot accessor
    snapFile,   \* the file at snap's path: {} (missing) or {content}
    reads,      \* how often the file at snap's path was read
    panel,      \* a DashboardPanelTestSuiteCounter and the points it is built from
    widget      \* what DashboardPanelTestSuiteCounter.build returned or raised

wsvars == <<dirs, metadata, files, projects, fresh, nops, last, detached>>
snapvars == <<snap, snapFile, reads>>
panelvars == <<panel, widget>>
vars ==
    <<dirs, metadata, files, projects, fresh, nops, last, detached,
      snap, snapFile, reads, panel, widget>>

-----------------------------------------------------------------------------
(* Bounds *)

MaxFresh == 3       \* uuid4() calls
MaxPanels == 2      \* panels of one dashboard
MaxAccesses == 3    \* accesses to the properties of one ProjectSnapshot
MaxStatuses == 2    \* length of a panel's statuses list
MaxOps == 3         \* operations after the Workspace is constructed

-----------------------------------------------------------------------------
(* Values *)

DiskIds == {21, 22}                      \* ids found on disk when the Workspace is constructed
uuid4(n) == 10 + n                      \* the n-th value uuid.uuid4() returns
FreshIds == {uuid4(n) : n \in 1..MaxFresh}
Ids == DiskIds \cup FreshIds
SnapIds == {"s1", "s2"}
PanelIds == {"q1", "q2"}
Timestamps == {0, 1}

\* The content of a snapshot file, by what Snapshot.load makes of it:
\* "ok" parses to a Snapshot, "invalid" is JSON that fails validation,
\* "badjson" is not JSON.
Snap(r, t) == [kind |-> "ok", is_report |-> r, ts |-> t]
Invalid == [kind |-> "invalid", is_report |-> FALSE, ts |-> 0]
BadJson == [kind |-> "badjson", is_report |-> FALSE, ts |-> 0]
Snapshots == {Snap(r, t) : r \in BOOLEAN, t \in Timestamps}

\* File names of a snapshots directory.  "canon" is str(id) + ".json"; "alt"
\* is another name whose first len - 5 characters uuid.UUID() parses to id
\* (upper case, braces, another five-character suffix); "junk" parses to no
\* UUID.
Canon(x) == [form |-> "canon", id |-> x]
Alt(x) == [form |-> "alt", id |-> x]
Junk == [form |-> "junk", id |-> "-"]

\* Optional[T]: {} is None, {v} is v.
None == {}
Some(v) == {v}
The(s) == CHOOSE v \in s : TRUE

UnnamedProject == "Unnamed Project"

-----------------------------------------------------------------------------
(* ProjectSnapshot *)

\* ProjectSnapshot.__init__: no file is touched; _value is kept when given.
ProjectSnapshot(id, value) ==
    [id |-> id, value |-> value, report |-> None,
     dashboard_info |-> None, additional_graphs |-> None]

\* Snapshot.load(path) on the file F found at path ({} when there is none).
Snapshot_load(F) ==
    IF F = {} THEN [exc |-> "FileNotFoundError", value |-> None, reads |-> 0]
    ELSE IF The(F).kind = "ok" THEN [exc |-> "ok", value |-> F, reads |-> 1]
    ELSE IF The(F).kind = "invalid" THEN [exc |-> "ValidationError", value |-> None, reads |-> 1]
    ELSE [exc |-> "JSONDecodeError", value |-> None, reads |-> 1]

\* ProjectSnapshot.report when _value is set: the value is not loaded.
report_of_value(ps) ==
    IF ps.report = None THEN [ps EXCEPT !.report = ps.value] ELSE ps

\* ProjectSnapshot.load: reads the file, then builds the dashboard info from
\* self.report (which, _value being set by then, reads nothing).
PS_load(ps, F) ==
    LET r == Snapshot_load(F) IN
    IF r.exc # "ok" THEN [ps |-> ps, exc |-> r.exc, reads |-> r.reads]
    ELSE LET ps1 == report_of_value([ps EXCEPT !.value = r.value]) IN
         [ps |-> [ps1 EXCEPT !.dashboard_info = ps1.report,
                             !.additional_graphs = ps1.report],
          exc |-> "ok", reads |-> r.reads]

PS_hit(ps) == [ps |-> ps, exc |-> "ok", reads |-> 0]

\* ProjectSnapshot.value
PS_value(ps, F) == IF ps.value = None THEN PS_load(ps, F) ELSE PS_hit(ps)

\* ProjectSnapshot.report
PS_report(ps, F) ==
    IF ps.report # None THEN PS_hit(ps)
    ELSE LET v == PS_value(ps, F) IN
         IF v.exc # "ok" THEN v
         ELSE [v EXCEPT !.ps = [v.ps EXCEPT !.report = v.ps.value]]

\* Mutant of PS_dashboard_info: the cached field is not looked at.
PS_dashboard_info_uncached(ps, F) == PS_load(ps, F)

\* ProjectSnapshot.dashboard_info
PS_dashboard_info(ps, F) ==
    IF ps.dashboard_info = None THEN PS_load(ps, F) ELSE PS_hit(ps)

\* ProjectSnapshot.additional_graphs
PS_additional_graphs(ps, F) ==
    IF ps.additional_graphs = None THEN PS_load(ps, F) ELSE PS_hit(ps)

-----------------------------------------------------------------------------
(* The file system *)

\* The file at path/snapshots/name, as {} or {content}.
FileAt(fs, ds, path, name) ==
    IF path \in ds /\ name \in DOMAIN fs[path] THEN {fs[path][name]} ELSE {}

\* f with key k set to v (a dict assignment, a file write).
Put(f, k, v) == [x \in DOMAIN f \cup {k} |-> IF x = k THEN v ELSE f[x]]

\* f without key k.
Drop(f, k) == [x \in DOMAIN f \ {k} |-> f[x]]

Empty == [x \in {} |-> 0]

-----------------------------------------------------------------------------
(* Project *)

\* Project.path: the directory named str(self.id) under the workspace root.
Path(p) == p.id

\* A Project as pydantic builds it: the private _snapshots starts as a copy
\* of the class default {}.
Project(id, name, description, panels) ==
    [id |-> id, name |-> name, description |-> description,
     panels |-> panels, snapshots |-> Empty]

\* Project.load(path): the metadata of path, or, when there is no metadata
\* file, an unnamed project whose id is a new uuid4 (u).
Project_load(ds, md, path, u) ==
    IF path \in ds /\ path \in DOMAIN md
    THEN Project(md[path].id, md[path].name, md[path].description, md[path].panels)
    ELSE Project(u, UnnamedProject, "None", <<>>)

\* Whether Project.load(path) draws a uuid4.
LoadDrawsId(ds, md, path) == ~(path \in ds /\ path \in DOMAIN md)

\* Project.dict(): what Project.save writes to metadata.json.
Project_dict(p) ==
    [id |-> p.id, name |-> p.name, description |-> p.description, panels |-> p.panels]

\* Mutant of reload: the private _snapshots is replaced with the rest, as it
\* would be were it kept in __dict__.
reload_replaces_snapshots(p, ds, md, u) == Project_load(ds, md, Path(p), u)

\* Project.reload: the fields of the project loaded from self.path replace
\* the fields of self (__dict__.update); the slots _snapshots and _workspace
\* are not in __dict__ and stay.
reload(p, ds, md, u) ==
    LET q == Project_load(ds, md, Path(p), u) IN
    [p EXCEPT !.id = q.id, !.name = q.name,
              !.description = q.description, !.panels = q.panels]

\* The orders in which os.listdir may return the names S.
Orders(S) ==
    {o \in [1..Cardinality(S) -> S] : \A i, j \in DOMAIN o : i # j => o[i] # o[j]}

\* Mutant of reload_loop: a cached id is not skipped, its file is loaded
\* again and replaces the cached accessor.
RECURSIVE reload_loop_no_skip(_, _, _, _)
reload_loop_no_skip(cache, dir, order, skip_errors) ==
    IF order = <<>> THEN [snapshots |-> cache, exc |-> "ok"]
    ELSE LET file == Head(order) IN
         IF file.form = "junk" THEN [snapshots |-> cache, exc |-> "ValueError"]
         ELSE LET r == Snapshot_load({dir[file]}) IN
              IF r.exc = "ok"
              THEN reload_loop_no_skip(Put(cache, file.id, ProjectSnapshot(file.id, r.value)),
                                       dir, Tail(order), skip_errors)
              ELSE IF r.exc = "ValidationError" /\ skip_errors
                   THEN reload_loop_no_skip(cache, dir, Tail(order), skip_errors)
              ELSE [snapshots |-> cache, exc |-> r.exc]

\* The loop of Project._reload_snapshots over the listing `order` of the
\* directory `dir`: a name that is no UUID raises ValueError, a cached id is
\* skipped before its file is opened, a ValidationError is skipped under
\* skip_errors, any other error ends the loop with what was added so far.
RECURSIVE reload_loop(_, _, _, _)
reload_loop(cache, dir, order, skip_errors) ==
    IF order = <<>> THEN [snapshots |-> cache, exc |-> "ok"]
    ELSE LET file == Head(order) IN
         IF file.form = "junk" THEN [snapshots |-> cache, exc |-> "ValueError"]
         ELSE IF file.id \in DOMAIN cache
              THEN reload_loop(cache, dir, Tail(order), skip_errors)
         ELSE LET r == Snapshot_load({dir[file]}) IN
              IF r.exc = "ok"
              THEN reload_loop(Put(cache, file.id, ProjectSnapshot(file.id, r.value)),
                               dir, Tail(order), skip_errors)
              ELSE IF r.exc = "ValidationError" /\ skip_errors
                   THEN reload_loop(cache, dir, Tail(order), skip_errors)
              ELSE [snapshots |-> cache, exc |-> r.exc]

\* Project._reload_snapshots: every way it can end, one per listing order.
\* os.listdir raises when the snapshots directory does not exist.
reload_snapshots(p, fs, ds, skip_errors) ==
    IF Path(p) \notin ds
    THEN {[snapshots |-> p.snapshots, exc |-> "FileNotFoundError"]}
    ELSE {reload_loop(p.snapshots, fs[Path(p)], o, skip_errors) :
            o \in Orders(DOMAIN fs[Path(p)])}

\* The keys of Project.reports: the cached snapshots that are reports.
reports_keys(cache) == {x \in DOMAIN cache : The(cache[x].value).is_report}

\* The keys of Project.test_suites.
test_suites_keys(cache) == {x \in DOMAIN cache : ~The(cache[x].value).is_report}

\* Mutant of InWindow: the end bound is taken as inclusive.
InWindow_end_inclusive(ts, timestamp_start, timestamp_end) ==
    /\ (timestamp_start = None \/ ts >= The(timestamp_start))
    /\ (timestamp_end = None \/ ts <= The(timestamp_end))

\* The filter of Project.build_dashboard_info on a report's timestamp.
InWindow(ts, timestamp_start, timestamp_end) ==
    /\ (timestamp_start = None \/ ts >= The(timestamp_start))
    /\ (timestamp_end = None \/ ts < The(timestamp_end))

\* Mutant of add_panel: the panel is put first.
add_panel_first(panels, q) == <<q>> \o panels

\* Project.add_panel: self.dashboard.panels.append(panel).
add_panel(panels, q) == Append(panels, q)

\* Project.save: makes self.path/snapshots and writes self.dict() to
\* self.path/metadata.json.
save_dirs(p, ds) == ds \cup {Path(p)}
save_files(p, ds, fs) == IF Path(p) \in ds THEN fs ELSE Put(fs, Path(p), Empty)
save_metadata(p, md) == Put(md, Path(p), Project_dict(p))

\* Project.add_snapshot, the file part: snapshot.save(item.path) writes
\* self.path/snapshots/str(id).json; open() raises when the directory is
\* missing.
add_snapshot_exc(p, ds) == IF Path(p) \in ds THEN "ok" ELSE "FileNotFoundError"
add_snapshot_files(p, ds, fs, x, c) ==
    IF Path(p) \in ds
    THEN [fs EXCEPT ![Path(p)] = Put(fs[Path(p)], Canon(x), c)]
    ELSE fs

\* Project.add_snapshot, the cache part: self._snapshots[item.id] = item,
\* reached only when the file was written.
add_snapshot_cache(p, ds, x, c) ==
    IF Path(p) \in ds
    THEN Put(p.snapshots, x, ProjectSnapshot(x, Some(c)))
    ELSE p.snapshots

\* Mutant of Project_add_snapshot_unbound: the item is cached before it is
\* saved.
Project_add_snapshot_cached_first(p, x, c) ==
    [exc |-> "ValueError", snapshots |-> Put(p.snapshots, x, ProjectSnapshot(x, Some(c)))]

\* Project.add_snapshot on a project whose _workspace was never set: the item
\* is built, item.path asks for self.project.path, Project.workspace finds no
\* _workspace and raises ValueError while the argument of snapshot.save is
\* computed; neither the save nor the cache assignment is reached.
Project_add_snapshot_unbound(p, x, c) ==
    [exc |-> "ValueError", snapshots |-> p.snapshots]

-----------------------------------------------------------------------------
(* Workspace *)

\* The metadata-less directories each draw a uuid4 in Project.load.
Rank(S, d) == Cardinality({e \in S : e <= d})
Loaded(ds, md, d) == Project_load(ds, md, d, uuid4(Rank(ds \ DOMAIN md, d)))

\* Workspace._load_projects: one Project per subdirectory, then the dict
\* {p.id: p}, in which the project listed last wins among equal ids.
load_projects(ds, md) ==
    LET keys == {Loaded(ds, md, d).id : d \in ds} IN
    {[k \in keys |-> Loaded(ds, md, f[k])] :
        f \in {g \in [keys -> ds] : \A k \in keys : Loaded(ds, md, g[k]).id = k}}

\* Workspace.get_project(k): {} for None.
get_project(k) == IF k \in DOMAIN projects THEN {projects[k]} ELSE None

Last(op, key, exc) ==
    [op |-> op, key |-> key, exc |-> exc, arg |-> "-",
     start |-> None, end |-> None, handed |-> {}]

Budget == nops < MaxOps
Tick == nops' = nops + 1
SubSpecsIdle == UNCHANGED <<snap, snapFile, reads, panel, widget>>

\* Workspace.add_project(project).
add_project(p) ==
    /\ dirs' = save_dirs(p, dirs)
    /\ files' = save_files(p, dirs, files)
    /\ metadata' = save_metadata(p, metadata)
    /\ projects' = Put(projects, p.id, p)

\* Workspace.create_project(name, description)
CreateProject(name, description) ==
    /\ Budget /\ fresh < MaxFresh
    /\ LET p == Project(uuid4(fresh + 1), name, description, <<>>) IN
        /\ add_project(p)
        /\ last' = Last("create_project", p.id, "ok")
    /\ fresh' = fresh + 1
    /\ UNCHANGED detached
    /\ Tick /\ SubSpecsIdle

\* Workspace.add_project(project) with a project the caller built with id i.
AddProject(i, name) ==
    /\ Budget
    /\ add_project(Project(i, name, "None", <<>>))
    /\ last' = Last("add_project", i, "ok")
    /\ UNCHANGED fresh
    /\ UNCHANGED detached
    /\ Tick /\ SubSpecsIdle

\* Workspace.add_snapshot(k, snapshot), the snapshot having id x and content c.
AddSnapshot(k, x, c) ==
    /\ Budget
    /\ IF k \in DOMAIN projects
       THEN LET p == projects[k] IN
            /\ files' = add_snapshot_files(p, dirs, files, x, c)
            /\ projects' = [projects EXCEPT ![k].snapshots = add_snapshot_cache(p, dirs, x, c)]
            /\ last' = [Last("add_snapshot", k, add_snapshot_exc(p, dirs)) EXCEPT !.arg = x]
       ELSE /\ UNCHANGED <<files, projects>>
            /\ last' = [Last("add_snapshot", k, "KeyError") EXCEPT !.arg = x]
    /\ UNCHANGED <<dirs, metadata, fresh>>
    /\ UNCHANGED detached
    /\ Tick /\ SubSpecsIdle

\* project.add_snapshot(snapshot) on the project that was never bound, the
\* snapshot having id x and content c.
ProjectAddSnapshot(x, c) ==
    /\ Budget
    /\ LET r == Project_add_snapshot_unbound(detached, x, c) IN
        /\ detached' = [detached EXCEPT !.snapshots = r.snapshots]
        /\ last' = [Last("project_add_snapshot", detached.id, r.exc) EXCEPT !.arg = x]
    /\ UNCHANGED <<dirs, metadata, files, projects, fresh>>
    /\ Tick /\ SubSpecsIdle

\* get_project(k).add_panel(q)
AddPanel(k, q) ==
    /\ Budget /\ k \in DOMAIN projects
    /\ Len(projects[k].panels) < MaxPanels
    /\ projects' = [projects EXCEPT ![k].panels = add_panel(@, q)]
    /\ last' = [Last("add_panel", k, "ok") EXCEPT !.arg = q]
    /\ UNCHANGED <<dirs, metadata, files, fresh>>
    /\ UNCHANGED detached
    /\ Tick /\ SubSpecsIdle

\* get_project(k).save()
Save(k) ==
    /\ Budget /\ k \in DOMAIN projects
    /\ LET p == projects[k] IN
        /\ dirs' = save_dirs(p, dirs)
        /\ files' = save_files(p, dirs, files)
        /\ metadata' = save_metadata(p, metadata)
    /\ last' = Last("save", k, "ok")
    /\ UNCHANGED <<projects, fresh>>
    /\ UNCHANGED detached
    /\ Tick /\ SubSpecsIdle

\* get_project(k).reload()
Reload(k) ==
    /\ Budget /\ k \in DOMAIN projects
    /\ LET p == projects[k]
           draws == LoadDrawsId(dirs, metadata, Path(p)) IN
        /\ draws => fresh < MaxFresh
        /\ projects' = [projects EXCEPT ![k] = reload(p, dirs, metadata, uuid4(fresh + 1))]
        /\ fresh' = IF draws THEN fresh + 1 ELSE fresh
    /\ last' = Last("reload", k, "ok")
    /\ UNCHANGED <<dirs, metadata, files>>
    /\ UNCHANGED detached
    /\ Tick /\ SubSpecsIdle

\* get_project(k).reports
Reports(k) ==
    /\ Budget /\ k \in DOMAIN projects
    /\ \E r \in reload_snapshots(projects[k], files, dirs, TRUE) :
        /\ projects' = [projects EXCEPT ![k].snapshots = r.snapshots]
        /\ last' = [Last("reports", k, r.exc) EXCEPT
                      !.handed = IF r.exc = "ok" THEN reports_keys(r.snapshots) ELSE {}]
    /\ UNCHANGED <<dirs, metadata, files, fresh>>
    /\ UNCHANGED detached
    /\ Tick /\ SubSpecsIdle

\* get_project(k).test_suites
TestSuites(k) ==
    /\ Budget /\ k \in DOMAIN projects
    /\ \E r \in reload_snapshots(projects[k], files, dirs, TRUE) :
        /\ projects' = [projects EXCEPT ![k].snapshots = r.snapshots]
        /\ last' = [Last("test_suites", k, r.exc) EXCEPT
                      !.handed = IF r.exc = "ok" THEN test_suites_keys(r.snapshots) ELSE {}]
    /\ UNCHANGED <<dirs, metadata, files, fresh>>
    /\ UNCHANGED detached
    /\ Tick /\ SubSpecsIdle

\* The reports Project.build_dashboard_info hands to the dashboard.
build_filter(cache, timestamp_start, timestamp_end) ==
    {x \in reports_keys(cache) :
        InWindow(The(cache[x].value).ts, timestamp_start, timestamp_end)}

\* get_project(k).build_dashboard_info(timestamp_start, timestamp_end):
\* reload(), then self.reports, then the filter.
BuildDashboardInfo(k, timestamp_start, timestamp_end) ==
    /\ Budget /\ k \in DOMAIN projects
    /\ LET p == projects[k]
           draws == LoadDrawsId(dirs, metadata, Path(p))
           p1 == reload(p, dirs, metadata, uuid4(fresh + 1)) IN
        /\ draws => fresh < MaxFresh
        /\ fresh' = IF draws THEN fresh + 1 ELSE fresh
        /\ \E r \in reload_snapshots(p1, files, dirs, TRUE) :
            /\ projects' = [projects EXCEPT ![k] = [p1 EXCEPT !.snapshots = r.snapshots]]
            /\ last' = [Last("build_dashboard_info", k, r.exc) EXCEPT
                          !.start = timestamp_start, !.end = timestamp_end,
                          !.handed = IF r.exc = "ok"
                                     THEN build_filter(r.snapshots, timestamp_start, timestamp_end)
                                     ELSE {}]
    /\ UNCHANGED <<dirs, metadata, files>>
    /\ UNCHANGED detached
    /\ Tick /\ SubSpecsIdle

\* get_project(k).get_snapshot(x).dashboard_info
SnapshotDashboardInfo(k, x) ==
    /\ Budget /\ k \in DOMAIN projects /\ x \in DOMAIN projects[k].snapshots
    /\ LET p == projects[k]
           r == PS_dashboard_info(p.snapshots[x], FileAt(files, dirs, Path(p), Canon(x))) IN
        /\ projects' = [projects EXCEPT ![k].snapshots[x] = r.ps]
        /\ last' = [Last("dashboard_info", k, r.exc) EXCEPT !.arg = x]
    /\ UNCHANGED <<dirs, metadata, files, fresh>>
    /\ UNCHANGED detached
    /\ Tick /\ SubSpecsIdle

-----------------------------------------------------------------------------
(* Other processes working on the same directories *)

FileNames == {Canon(x) : x \in SnapIds} \cup {Alt("s1"), Junk}

\* The files other processes write: a snapshot, files that do
\* not load, a second name for an id, a name that is no UUID.
Written ==
    {<<Canon("s2"), c>> : c \in {Snap(TRUE, 1), Invalid, BadJson}}
        \cup {<<Alt("s1"), Snap(TRUE, 1)>>, <<Junk, BadJson>>}

\* A file of a snapshots directory is removed.
RemoveFile(d, name) ==
    /\ Budget /\ d \in dirs /\ name \in DOMAIN files[d]
    /\ files' = [files EXCEPT ![d] = Drop(@, name)]
    /\ last' = Last("remove_file", 0, "ok")
    /\ UNCHANGED <<dirs, metadata, projects, fresh>>
    /\ UNCHANGED detached
    /\ Tick /\ SubSpecsIdle

\* A file appears in a snapshots directory.
WriteFile(d, name, c) ==
    /\ Budget /\ d \in dirs /\ name \notin DOMAIN files[d]
    /\ files' = [files EXCEPT ![d] = Put(@, name, c)]
    /\ last' = Last("write_file", 0, "ok")
    /\ UNCHANGED <<dirs, metadata, projects, fresh>>
    /\ UNCHANGED detached
    /\ Tick /\ SubSpecsIdle

-----------------------------------------------------------------------------
(* Specifications *)

ProjectNames == {"A"}

\* The panels callers add; the projects found on disk hold "q1".
AddedPanels == {"q2"}

\* The snapshots callers add, as <<id, content>>: reports and test suites,
\* over an id that is stored already ("s1" is in every directory found on
\* disk) and a new one.
Added ==
    {<<"s1", Snap(FALSE, 0)>>, <<"s1", Snap(TRUE, 1)>>,
     <<"s2", Snap(TRUE, 1)>>, <<"s2", Snap(FALSE, 0)>>}
\* The windows asked for, as <<timestamp_start, timestamp_end>>.
Windows == {<<None, None>>, <<Some(1), None>>, <<None, Some(1)>>}

\* Project(id=..., name=..., dashboard=...) as a caller builds it; its id names
\* a directory that may exist under the root.
UnboundProject == Project(21, "A", "None", <<>>)

InitMeta(i) == [id |-> i, name |-> "A", description |-> "None", panels |-> <<"q1">>]
InitDir == Put(Empty, Canon("s1"), Snap(TRUE, 0))

SubSpecsInit ==
    /\ snap = ProjectSnapshot("s1", None) /\ snapFile = {} /\ reads = [n |-> 0, accesses |-> 0]
    /\ panel = Empty /\ widget = Empty

\* The state after Workspace(path) over any small directory tree.
Init ==
    /\ dirs \in SUBSET DiskIds
    /\ metadata \in UNION {[S -> {InitMeta(i) : i \in DiskIds}] : S \in SUBSET dirs}
    /\ files = [d \in dirs |-> InitDir]
    /\ projects \in load_projects(dirs, metadata)
    /\ fresh = Cardinality(dirs \ DOMAIN metadata)
    /\ nops = 0
    /\ last = Last("init", 0, "ok")
    /\ detached = UnboundProject
    /\ SubSpecsInit

Ops ==
    \/ \E name \in ProjectNames, description \in {"d"} : CreateProject(name, description)
    \/ \E i \in DiskIds, name \in ProjectNames : AddProject(i, name)
    \/ \E k \in Ids, a \in Added :
          /\ k \notin DOMAIN projects => a = <<"s1", Snap(FALSE, 0)>>
          /\ AddSnapshot(k, a[1], a[2])
    \/ \E a \in {<<"s2", Snap(TRUE, 1)>>} : ProjectAddSnapshot(a[1], a[2])
    \/ \E k \in Ids, q \in AddedPanels : AddPanel(k, q)
    \/ \E k \in Ids : Save(k)
    \/ \E k \in Ids : Reload(k)
    \/ \E k \in Ids : Reports(k)
    \/ \E k \in Ids : TestSuites(k)
    \/ \E k \in Ids, w \in Windows : BuildDashboardInfo(k, w[1], w[2])
    \/ \E k \in Ids, x \in SnapIds : SnapshotDashboardInfo(k, x)

Env ==
    \/ \E d \in DiskIds, name \in FileNames : RemoveFile(d, name)
    \/ \E d \in DiskIds, w \in Written : WriteFile(d, w[1], w[2])

Next == Ops

NextEnv == Ops \/ Env

\* The operations of one process on its Workspace.
Spec == Init /\ [][Next]_vars

\* The same, with other processes adding and removing snapshot files.
SpecEnv == Init /\ [][NextEnv]_vars

-----------------------------------------------------------------------------
(* A ProjectSnapshot on its own *)

\* The workspace left out of the picture.
WorkspaceIdle ==
    /\ dirs = {} /\ metadata = Empty /\ files = Empty /\ projects = Empty
    /\ fresh = 0 /\ nops = 0 /\ last = Last("init", 0, "ok")
    /\ detached = UnboundProject

\* ProjectSnapshot(id, project) or ProjectSnapshot(id, project, value) over a
\* path that holds no file, a snapshot, or a file that does not load.
InitSnapshot ==
    /\ WorkspaceIdle
    /\ snap \in {ProjectSnapshot("s1", v) : v \in {None} \cup {Some(c) : c \in Snapshots}}
    /\ snapFile \in {{}} \cup {{c} : c \in Snapshots \cup {Invalid, BadJson}}
    /\ reads = [n |-> 0, accesses |-> 0]
    /\ panel = Empty /\ widget = Empty

\* One access to a property of snap, r being what the property did.
Access(r) ==
    /\ reads.accesses < MaxAccesses
    /\ snap' = r.ps
    /\ reads' = [n |-> reads.n + r.reads, accesses |-> reads.accesses + 1]
    /\ UNCHANGED <<snapFile, dirs, metadata, files, projects, fresh, nops, last,
                   detached, panel, widget>>

AccessValue == Access(PS_value(snap, snapFile))
AccessReport == Access(PS_report(snap, snapFile))
AccessDashboardInfo == Access(PS_dashboard_info(snap, snapFile))
AccessAdditionalGraphs == Access(PS_additional_graphs(snap, snapFile))

NextSnapshot ==
    \/ AccessValue
    \/ AccessReport
    \/ AccessDashboardInfo
    \/ AccessAdditionalGraphs

SpecSnapshot == InitSnapshot /\ [][NextSnapshot]_vars

-----------------------------------------------------------------------------
(* DashboardPanelTestSuiteCounter *)

TestStatuses == {"SUCCESS", "FAIL"}
Tests == {"t1", "t2"}
Aggs == {"none", "last", "sum"}         \* CounterAgg

\* The number of pydantic fields of a Test, which is what iterating it yields.
TestFields(t) == IF t = "t1" THEN 1 ELSE 2

\* Dict[Test, TestStatus] in insertion order: distinct tests, each with a status.
TestResults ==
    {r \in UNION {[1..n -> [test : Tests, status : TestStatuses]] : n \in 0..Cardinality(Tests)} :
        \A i, j \in DOMAIN r : i # j => r[i].test # r[j].test}

\* TestResultPoints: timestamp -> Dict[Test, TestStatus], what
\* data_storage.load_test_results returns for the window.
Points == UNION {[T -> TestResults] : T \in SUBSET Timestamps}

\* The statuses lists of a panel.
StatusLists == UNION {[1..n -> TestStatuses] : n \in 0..MaxStatuses}

\* collections.Counter over the keys TestStatuses and "other" (a key that is
\* no TestStatus).
CounterKeys == TestStatuses \cup {"other"}
Counter0 == [s \in CounterKeys |-> 0]
Counter_add(c, key, n) == [c EXCEPT ![key] = @ + n]

\* Counter(results.values()): one count per test result, by status.
RECURSIVE Counter_of(_, _)
Counter_of(c, results) ==
    IF results = <<>> THEN c
    ELSE Counter_of(Counter_add(c, Head(results).status, 1), Tail(results))

RECURSIVE SumOver(_, _)
SumOver(f, S) ==
    IF S = {} THEN 0
    ELSE LET x == CHOOSE y \in S : TRUE IN f[x] + SumOver(f, S \ {x})

\* DashboardPanelTestSuiteCounter._build_none, the loop
\*     for _, values in points.values(): statuses.update(values)
\* over the timestamps left in T: each value, a dict, is unpacked into two
\* names, which raises ValueError unless it has exactly two keys; values is
\* then the second key, a Test, and update counts what iterating it yields,
\* its (field, value) pairs, none of which is a TestStatus.
RECURSIVE build_none_loop(_, _, _)
build_none_loop(c, points, T) ==
    IF T = {} THEN [exc |-> "ok", statuses |-> c, postfix |-> ""]
    ELSE LET ts == CHOOSE t \in T : \A u \in T : t <= u IN
         IF Len(points[ts]) # 2
         THEN [exc |-> "ValueError", statuses |-> c, postfix |-> ""]
         ELSE build_none_loop(Counter_add(c, "other", TestFields(points[ts][2].test)),
                              points, T \ {ts})

build_none(points) == build_none_loop(Counter0, points, DOMAIN points)

\* Mutant of build_last: the results of every timestamp are counted.
RECURSIVE build_last_all_loop(_, _, _)
build_last_all_loop(c, points, T) ==
    IF T = {} THEN c
    ELSE LET ts == CHOOSE t \in T : TRUE IN
         build_last_all_loop(Counter_of(c, points[ts]), points, T \ {ts})

build_last_all(points) ==
    IF DOMAIN points = {} THEN [exc |-> "ok", statuses |-> Counter0, postfix |-> "(no data)"]
    ELSE [exc |-> "ok", statuses |-> build_last_all_loop(Counter0, points, DOMAIN points),
          postfix |-> "(last_ts)"]

\* DashboardPanelTestSuiteCounter._build_last
build_last(points) ==
    IF DOMAIN points = {} THEN [exc |-> "ok", statuses |-> Counter0, postfix |-> "(no data)"]
    ELSE LET last_ts == CHOOSE t \in DOMAIN points : \A u \in DOMAIN points : u <= t IN
         [exc |-> "ok", statuses |-> Counter_of(Counter0, points[last_ts]), postfix |-> "(last_ts)"]

RECURSIVE sum_statuses(_, _)
\* sum(statuses[s] for s in self.statuses)
sum_statuses(c, list) ==
    IF list = <<>> THEN 0 ELSE c[Head(list)] + sum_statuses(c, Tail(list))

\* DashboardPanelTestSuiteCounter.build: the counter text value/total postfix,
\* or the error raised.
build(pn) ==
    LET r == IF pn.agg = "none" THEN build_none(pn.points)
             ELSE IF pn.agg = "last" THEN build_last(pn.points)
             ELSE [exc |-> "ValueError", statuses |-> Counter0, postfix |-> ""] IN
    IF r.exc # "ok"
    THEN [built |-> TRUE, exc |-> r.exc, value |-> 0, total |-> 0, postfix |-> ""]
    ELSE [built |-> TRUE, exc |-> "ok",
          value |-> sum_statuses(r.statuses, pn.statuses),
          total |-> SumOver(r.statuses, CounterKeys),
          postfix |-> r.postfix]

NotBuilt == [built |-> FALSE, exc |-> "ok", value |-> 0, total |-> 0, postfix |-> ""]

InitPanel ==
    /\ WorkspaceIdle
    /\ snap = ProjectSnapshot("s1", None) /\ snapFile = {} /\ reads = [n |-> 0, accesses |-> 0]
    /\ panel \in [agg : Aggs, statuses : StatusLists, points : Points]
    /\ widget = NotBuilt

\* panel.build(data_storage, project_id, timestamp_start, timestamp_end)
Build ==
    /\ ~widget.built
    /\ widget' = build(panel)
    /\ UNCHANGED <<panel, snap, snapFile, reads, dirs, metadata, files, projects, fresh, nops,
                   last, detached>>

NextPanel == Build

SpecPanel == InitPanel /\ [][NextPanel]_vars

-----------------------------------------------------------------------------
(* Claims *)

Cache(k) == projects[k].snapshots
CachedIds(k) == DOMAIN projects[k].snapshots
ReloadOps == {"reports", "test_suites", "build_dashboard_info"}

\* C1 (as claimed): every snapshot id in a project's cache has a file
\* <id>.json in that project's snapshots directory.
C1_CacheSubsetOfDirectory ==
    \A k \in DOMAIN projects : \A x \in CachedIds(k) :
        FileAt(files, dirs, Path(projects[k]), Canon(x)) # {}

\* C4 (as claimed): every entry of the project map is keyed by the current id
\* of the project it holds.
C4_KeyedByCurrentId ==
    \A k \in DOMAIN projects : projects[k].id = k

\* C5 (as claimed): right after construction, every subdirectory of the root
\* has exactly one project of the Workspace whose storage path is that
\* directory.
C5_OneProjectPerDirectory ==
    last.op = "init" =>
        /\ \A d \in dirs : \E k \in DOMAIN projects : Path(projects[k]) = d
        /\ Cardinality(DOMAIN projects) = Cardinality(dirs)

\* The ids a snapshot reload of the directory at path can load: those of the
\* names that parse to a UUID and whose file is a snapshot.
Loadable(fs, ds, path) ==
    IF path \notin ds THEN {}
    ELSE {name.id : name \in {n \in DOMAIN fs[path] : n.form # "junk" /\ fs[path][n].kind = "ok"}}

\* The ids present in the directory at path.
Present(fs, ds, path) ==
    IF path \notin ds THEN {}
    ELSE {name.id : name \in {n \in DOMAIN fs[path] : n.form # "junk"}}

\* A step of a Project object that stays in the map under key k.
Kept(k) == last'.op # "add_project" /\ k \in DOMAIN projects /\ k \in DOMAIN projects'

\* C2 (as claimed): the cache only grows, and a snapshot reload adds exactly
\* the ids present in the directory and not yet cached.
C2_ReloadAddsExactlyPresent ==
    [][\A k \in DOMAIN projects : Kept(k) =>
        /\ CachedIds(k) \subseteq DOMAIN projects'[k].snapshots
        /\ (last'.op \in ReloadOps /\ last'.key = k) =>
              DOMAIN projects'[k].snapshots =
                  CachedIds(k) \cup Present(files', dirs', Path(projects'[k]))]_vars

\* C2 (amended): the cache only grows, also when files are removed; a snapshot
\* reload adds only ids of files of the directory that load as snapshots, and
\* all of them when it ends without an error.
C2_CacheGrowsReloadAddsLoadable ==
    [][\A k \in DOMAIN projects : Kept(k) =>
        /\ CachedIds(k) \subseteq DOMAIN projects'[k].snapshots
        /\ (last'.op \in ReloadOps /\ last'.key = k) =>
              LET new == DOMAIN projects'[k].snapshots
                  can == Loadable(files', dirs', Path(projects'[k])) IN
              /\ new \subseteq CachedIds(k) \cup can
              /\ last'.exc = "ok" => new = CachedIds(k) \cup can
        /\ (last'.op \notin ReloadOps \cup {"add_snapshot"}) =>
              DOMAIN projects'[k].snapshots = CachedIds(k)]_vars

\* C2 witness: a snapshot reload has ended and the cache still holds an id
\* whose file is gone from the directory.
C2_Witness ==
    /\ last.op \in ReloadOps /\ last.exc = "ok"
    /\ \E x \in CachedIds(last.key) :
          x \notin Present(files, dirs, Path(projects[last.key]))

\* The value the project returns for a cached snapshot.
Value(k, x) == projects[k].snapshots[x].value

\* C3 (as claimed): no operation changes the content of a snapshot file that
\* was written, nor the value a project returns for a cached id.
C3_SnapshotImmutable ==
    [][/\ \A d \in dirs : \A x \in SnapIds :
            Canon(x) \in DOMAIN files[d] =>
                FileAt(files', dirs', d, Canon(x)) = {files[d][Canon(x)]}
       /\ \A k \in DOMAIN projects : \A x \in CachedIds(k) :
            (Kept(k) /\ x \in DOMAIN projects'[k].snapshots) =>
                projects'[k].snapshots[x].value = Value(k, x)]_vars

\* C3 (amended): the content of the file <X>.json of a directory is changed
\* only by an add_snapshot carrying X on a project stored in that directory;
\* the value a project returns for X is changed only by an add_snapshot
\* carrying X on that project, or by the accessor's lazy load, which takes
\* the content of the file at the project's current path.
C3_ChangedOnlyBySameId ==
    [][/\ \A d \in dirs : \A x \in SnapIds :
            Canon(x) \in DOMAIN files[d] =>
                \/ FileAt(files', dirs', d, Canon(x)) = {files[d][Canon(x)]}
                \/ /\ last'.op = "add_snapshot" /\ last'.arg = x
                   /\ last'.key \in DOMAIN projects
                   /\ Path(projects[last'.key]) = d
                   /\ FileAt(files', dirs', d, Canon(x)) # {}
       /\ \A k \in DOMAIN projects : \A x \in CachedIds(k) :
            (Kept(k) /\ x \in DOMAIN projects'[k].snapshots) =>
                \/ projects'[k].snapshots[x].value = Value(k, x)
                \/ last'.op = "add_snapshot" /\ last'.arg = x /\ last'.key = k
                \/ /\ last'.op = "dashboard_info" /\ last'.arg = x /\ last'.key = k
                   /\ projects'[k].snapshots[x].value =
                        FileAt(files, dirs, Path(projects[k]), Canon(x))]_vars

\* C3 witness: an add_snapshot has stored an id over a file that was there,
\* and the project holds it.
C3_Witness ==
    /\ last.op = "add_snapshot" /\ last.exc = "ok" /\ last.arg = "s1"
    /\ Value(last.key, "s1") = {Snap(FALSE, 0)}
    /\ FileAt(files, dirs, Path(projects[last.key]), Canon("s1")) = {Snap(FALSE, 0)}

\* C6: a build_dashboard_info that returns hands over exactly the cached
\* snapshots that are reports with timestamp_start <= ts < timestamp_end (None
\* being no limit), and by then every loadable file of the directory is
\* cached, the files that appeared since the last call included.
C6_HandsReportsInWindow ==
    (last.op = "build_dashboard_info" /\ last.exc = "ok") =>
        LET k == last.key IN
        /\ k \in DOMAIN projects
        /\ Loadable(files, dirs, Path(projects[k])) \subseteq CachedIds(k)
        /\ \A x \in CachedIds(k) :
              x \in last.handed <=>
                  /\ The(Value(k, x)).is_report
                  /\ \A t \in last.start : t <= The(Value(k, x)).ts
                  /\ \A t \in last.end : The(Value(k, x)).ts < t
        /\ last.handed \subseteq CachedIds(k)

\* C6 witness: a window with a start has passed a report on its start bound
\* and kept out a cached snapshot.
C6_Witness ==
    /\ last.op = "build_dashboard_info" /\ last.exc = "ok"
    /\ last.start = Some(1) /\ last.end = None
    /\ "s2" \in last.handed
    /\ "s1" \in CachedIds(last.key) \ last.handed

\* C8 (as claimed): Workspace.add_snapshot(k, s) with a known k leaves the
\* cache, metadata and directory of every other project, and the fields of
\* project k, unchanged.
C8_AddSnapshotFrame ==
    [][(last'.op = "add_snapshot" /\ last'.exc # "KeyError") =>
        LET k == last'.key IN
        /\ DOMAIN projects' = DOMAIN projects
        /\ metadata' = metadata /\ dirs' = dirs
        /\ Project_dict(projects'[k]) = Project_dict(projects[k])
        /\ \A j \in DOMAIN projects \ {k} :
              /\ projects'[j] = projects[j]
              /\ Path(projects[j]) \in dirs =>
                    files'[Path(projects[j])] = files[Path(projects[j])]]_vars

\* C9 (as claimed): add_panel appends the panel, and every panel the project
\* holds when build_dashboard_info is called is among those it builds from.
C9_PanelKeptByBuild ==
    [][\A k \in DOMAIN projects :
        /\ (last'.op = "add_panel" /\ last'.key = k) =>
              projects'[k].panels = Append(projects[k].panels, last'.arg)
        /\ (last'.op = "build_dashboard_info" /\ last'.key = k) =>
              \A i \in DOMAIN projects[k].panels :
                  \E j \in DOMAIN projects'[k].panels :
                      projects'[k].panels[j] = projects[k].panels[i]]_vars

\* The panels stored for the project: those of the metadata file at its
\* path, none when there is no such file.
StoredPanels(k) ==
    IF Path(projects[k]) \in dirs /\ Path(projects[k]) \in DOMAIN metadata
    THEN metadata[Path(projects[k])].panels ELSE <<>>

\* C9 (amended): add_panel appends the panel, the earlier panels keeping their
\* order; build_dashboard_info builds from the panels stored in the metadata
\* file at the project's path (none without the file), so an added panel is
\* among them only when Project.save has stored it.
C9_PanelAppendedBuildFromStored ==
    [][\A k \in DOMAIN projects :
        /\ (last'.op = "add_panel" /\ last'.key = k) =>
              /\ Len(projects'[k].panels) = Len(projects[k].panels) + 1
              /\ projects'[k].panels[Len(projects'[k].panels)] = last'.arg
              /\ \A i \in DOMAIN projects[k].panels :
                    projects'[k].panels[i] = projects[k].panels[i]
        /\ (last'.op = "build_dashboard_info" /\ last'.key = k) =>
              projects'[k].panels = StoredPanels(k)]_vars

\* C9 witness: a panel was added after another, saved, and the dashboard is
\* built from both.
C9_Witness ==
    /\ last.op = "build_dashboard_info"
    /\ projects[last.key].panels = <<"q1", "q2">>

\* C7 (as claimed): over any sequence of accesses the snapshot file is read
\* at most once.
C7_ReadAtMostOnce == reads.n <= 1

\* C7 (amended): constructing the accessor reads nothing, a file that loads is
\* read at most once, whatever the accesses and whether or not a value was
\* given; only a file that does not load is read again by a later access.
C7_LoadedAtMostOnce ==
    /\ reads.accesses = 0 => reads.n = 0
    /\ reads.n <= 1 \/ (snapFile # {} /\ The(snapFile).kind # "ok")
    /\ reads.n <= reads.accesses

\* C7 witness: several accesses were made, one of them read the file, and
\* all four fields are cached.
C7_Witness ==
    /\ reads.accesses = MaxAccesses /\ reads.n = 1
    /\ snap.value # None /\ snap.report # None
    /\ snap.dashboard_info # None /\ snap.additional_graphs # None

\* The test results of the points, over all timestamps.
AllResults(points) ==
    UNION {{<<ts, i>> : i \in DOMAIN points[ts]} : ts \in DOMAIN points}

\* C10 (as claimed): with agg NONE the counter shows value/total, total being
\* the number of test results over all timestamps and value the number of
\* those whose status is one of the panel's statuses, so value <= total.
C10_NoneCountsAllResults ==
    (widget.built /\ panel.agg = "none") =>
        /\ widget.exc = "ok"
        /\ widget.total = Cardinality(AllResults(panel.points))
        /\ widget.value = Cardinality({r \in AllResults(panel.points) :
                \E i \in DOMAIN panel.statuses :
                    panel.statuses[i] = panel.points[r[1]][r[2]].status})
        /\ widget.value <= widget.total

\* The greatest timestamp of the points.
LastTs(points) == CHOOSE t \in DOMAIN points : \A u \in DOMAIN points : u <= t

\* The number of <<i, j>> with the i-th entry of the statuses list being the
\* status of the j-th of the results.
Listed(statuses, results) ==
    Cardinality({ij \in (DOMAIN statuses) \X (DOMAIN results) :
                    statuses[ij[1]] = results[ij[2]].status})

\* C11: with agg LAST a build raises nothing; over no timestamp it shows 0/0
\* with the "(no data)" postfix; otherwise total is the number of test results
\* of the greatest timestamp and value counts, per entry of the statuses list,
\* the results of that timestamp with that status, whatever the earlier
\* timestamps hold.  An agg other than NONE and LAST raises ValueError.
C11_LastCountsGreatestTimestamp ==
    widget.built =>
        /\ panel.agg = "last" =>
              /\ widget.exc = "ok"
              /\ DOMAIN panel.points = {} =>
                    widget.value = 0 /\ widget.total = 0 /\ widget.postfix = "(no data)"
              /\ DOMAIN panel.points # {} =>
                    LET results == panel.points[LastTs(panel.points)] IN
                    /\ widget.total = Len(results)
                    /\ widget.value = Listed(panel.statuses, results)
                    /\ widget.postfix = "(last_ts)"
        /\ panel.agg \notin {"none", "last"} => widget.exc = "ValueError"

\* C11 witness: a LAST counter was built over two timestamps, the earlier
\* holding two successes and the later one failure, and shows 0/1.
C11_Witness ==
    /\ widget.built /\ panel.agg = "last" /\ panel.statuses = <<"SUCCESS">>
    /\ DOMAIN panel.points = {0, 1}
    /\ Len(panel.points[0]) = 2
    /\ \A i \in 1..2 : panel.points[0][i].status = "SUCCESS"
    /\ Len(panel.points[1]) = 1 /\ panel.points[1][1].status = "FAIL"
    /\ widget.value = 0 /\ widget.total = 1

\* C12 (as claimed): an access to reports or test_suites of a project whose
\* snapshots directory exists raises nothing, whatever files that do not load
\* the directory holds, adds none of them to the cache, and leaves every
\* loadable file of the directory cached.
C12_ReloadSkipsUnloadable ==
    [][(/\ last'.op \in {"reports", "test_suites"}
        /\ last'.key \in DOMAIN projects
        /\ Path(projects[last'.key]) \in dirs) =>
          LET k == last'.key IN
          /\ last'.exc = "ok"
          /\ DOMAIN projects'[k].snapshots =
                CachedIds(k) \cup Loadable(files', dirs', Path(projects'[k]))]_vars

\* C13: a Workspace.add_snapshot whose project id is not in the project map
\* ends in an error, and so does Project.add_snapshot on a project that was
\* never bound to a Workspace, which raises ValueError; neither writes a file
\* or changes a directory, the metadata, the project map, any project's
\* snapshot cache or the unbound project's own cache.
C13_FailedAddSnapshotChangesNothing ==
    [][/\ (last'.op = "add_snapshot" /\ last'.key \notin DOMAIN projects) =>
            /\ last'.exc # "ok"
            /\ UNCHANGED <<dirs, metadata, files, projects, detached>>
       /\ last'.op = "project_add_snapshot" =>
            /\ last'.exc = "ValueError"
            /\ UNCHANGED <<dirs, metadata, files, projects, detached>>]_vars

\* C13 witness: an add_snapshot under an id that is no key of the project map
\* has ended in KeyError, the directory named by that id being there, still
\* with the one file it held.
C13_Witness ==
    /\ last.op = "add_snapshot" /\ last.exc = "KeyError"
    /\ last.key \notin DOMAIN projects
    /\ last.key \in dirs /\ files[last.key] = InitDir

====
